---------------------------- MODULE Spec2Model ----------------------------
(***************************************************************************)
(* A model of examples/statemachine/statemachine.py: the two grammars of   *)
(* the .pystate language, the two parse actions that build the state graph *)
(* and emit Python definitions, the string transformation of               *)
(* PystateImporter.process_filedata, and the behaviour of the emitted      *)
(* classes once exec has installed them in the module namespace.           *)
(*                                                                         *)
(* Three specifications share the variables:                               *)
(*   SpecU  unnamed dialect: parse results -> graph -> emitted statements  *)
(*          -> namespace -> next_state() calls                             *)
(*   SpecN  named dialect: the same pipeline, then next_state(name) calls  *)
(*          and member access                                              *)
(*   SpecF  the importer: find_module, then load_module on the file's      *)
(*          characters -> transformString -> compile -> exec               *)
(***************************************************************************)
EXTENDS Naturals, Sequences, FiniteSets, TLC

VARIABLES
    pc,              \* position in the pipeline
    src,             \* SpecF: the file, as the pieces its text was written from
    data,            \* SpecF: the text load_module read, a sequence of characters
    generated_code,  \* SpecF: the pieces transformString joins
    tokens,          \* the parse results handed to the parse action
    graph,           \* the parse action's locals states / transitions / fromTo
    statedef,        \* the statements the parse action emitted
    module,          \* module.__dict__ and the objects it refers to
    self,            \* the state instance in hand (its class), 0 if none
    call,            \* the last call made, and its outcome
    found            \* SpecF: the importer's _found, module name -> path

vars ==
    <<pc, src, data, generated_code, tokens, graph, statedef, module, self, call, found>>

None == [k |-> "None"]

(***************************************************************************)
(* Python containers                                                       *)
(***************************************************************************)

\* d[k] = v on a dict
DictSet(d, k, v) == [x \in (DOMAIN d) \cup {k} |-> IF x = k THEN v ELSE d[x]]

\* the orders in which iterating a set may deliver its members
SetOrders(S) ==
    {q \in [1..Cardinality(S) -> S] : \A i, j \in 1..Cardinality(S) : q[i] = q[j] => i = j}

\* a dict iterates in the order its keys were first inserted
RECURSIVE KeyOrder(_, _, _)
KeyOrder(keys, i, acc) ==
    IF i > Len(keys) THEN acc
    ELSE KeyOrder(keys, i + 1,
                  IF \E j \in 1..Len(acc) : acc[j] = keys[i] THEN acc
                  ELSE Append(acc, keys[i]))

(***************************************************************************)
(* expand_state_definition: the unnamed dialect's parse action             *)
(***************************************************************************)

\* one pass of the loop over tokens.transitions
UnnamedLoopFirstWins(acc, tn) ==
    [states |-> acc.states \cup {tn.from_state, tn.to_state},
     fromTo |-> IF tn.from_state \in DOMAIN acc.fromTo THEN acc.fromTo
                ELSE DictSet(acc.fromTo, tn.from_state, tn.to_state)]

UnnamedLoop(acc, tn) ==
    [states |-> acc.states \cup {tn.from_state, tn.to_state},
     fromTo |-> DictSet(acc.fromTo, tn.from_state, tn.to_state)]

RECURSIVE UnnamedGraph(_, _, _)
UnnamedGraph(trs, i, acc) ==
    IF i > Len(trs) THEN acc
    ELSE UnnamedGraph(trs, i + 1, UnnamedLoop(acc, trs[i]))

BuildUnnamed(toks) ==
    UnnamedGraph(toks.transitions, 1, [states |-> {}, fromTo |-> <<>>])

UnnamedBase(name) ==
    [op |-> "base", name |-> name, parent |-> "object",
     methods |-> {"__str__", "states", "next_state"}]

StateClass(s, baseStateClass) == [op |-> "class", name |-> s, parent |-> baseStateClass]

NextStateBinding(g, s) == [op |-> "bind", name |-> s, to |-> g.fromTo[s]]

\* the subtypes taken from the keys of fromTo instead of the set states
EmitUnnamedFromKeys(g, baseStateClass, order) ==
    LET bound == SelectSeq(order, LAMBDA s : s \in DOMAIN g.fromTo)
    IN  <<UnnamedBase(baseStateClass)>>
        \o [i \in 1..Len(bound) |-> StateClass(bound[i], baseStateClass)]
        \o [i \in 1..Len(bound) |-> NextStateBinding(g, bound[i])]

\* statedef, given the order in which the set states iterates
EmitUnnamed(g, baseStateClass, order) ==
    <<UnnamedBase(baseStateClass)>>
    \o [i \in 1..Len(order) |-> StateClass(order[i], baseStateClass)]
    \o (LET bound == SelectSeq(order, LAMBDA s : s \in DOMAIN g.fromTo)
        IN  [i \in 1..Len(bound) |-> NextStateBinding(g, bound[i])])

expand_state_definition(indent, toks, order) ==
    [indent |-> indent, dialect |-> "unnamed", name |-> toks.name,
     statedef |-> EmitUnnamed(BuildUnnamed(toks), toks.name, order)]

(***************************************************************************)
(* exec(codeobj, module.__dict__): the emitted statements, run in order.   *)
(* The namespace maps a global name to an object; an object is a class     *)
(* (name, parent class, class attributes) or an instance of a class.       *)
(***************************************************************************)

EmptyModule == [globals |-> <<>>, heap |-> <<>>, error |-> "none"]

Ref(id) == [k |-> "ref", id |-> id]

\* a statement that reads a global name nothing has bound raises NameError
NameError(m) == [m EXCEPT !.error = "NameError"]

Bound(m, names) == names \subseteq DOMAIN m.globals

NewClass(m, name, parent, attrs) ==
    [m EXCEPT !.globals = DictSet(@, name, Len(m.heap) + 1),
              !.heap = Append(@, [kind |-> "class", name |-> name,
                                  parent |-> parent, attrs |-> attrs])]

SetAttr(m, id, attr, v) ==
    [m EXCEPT !.heap[id].attrs = DictSet(@, attr, v)]

\* a global name bound to a new object that is neither class nor instance
NewObject(m, name, obj) ==
    [m EXCEPT !.globals = DictSet(@, name, Len(m.heap) + 1),
              !.heap = Append(@, obj)]

\* exec inserts __builtins__ into a globals dict that lacks it
WithBuiltins(m) ==
    IF Bound(m, {"__builtins__"}) THEN m
    ELSE NewObject(m, "__builtins__", [kind |-> "builtins"])

suffix == "pystate"

\* os.path.join(dirpath, '{}.{}'.format(fullname, self.suffix))
checkpath(dirpath, fullname) == dirpath \o "/" \o fullname \o "." \o suffix

\* module.__dict__.clear(), then __file__, __name__ and __loader__ are set;
\* the objects only the old names referred to are gone with the names
ClearedModule(file, fullname) ==
    NewObject(
        NewObject(
            NewObject(EmptyModule, "__file__", [kind |-> "str", s |-> file]),
            "__name__", [kind |-> "str", s |-> fullname]),
        "__loader__", [kind |-> "loader", suffix |-> suffix])

\* the name under import and the one directory of sys.path that is searched
FullName == "trafficlight"
DirPath == "."

\* the namespace process_filedata is handed: load_module has cleared it and set
\* the three attributes
LoadedModule == ClearedModule(checkpath(DirPath, FullName), FullName)

Methods(st) == [f \in st.methods |-> [k |-> "method", f |-> f, machine |-> st.name]]

ExecUnnamedStmt(m, st) ==
    CASE st.op = "base"  -> NewClass(m, st.name, 0, Methods(st))
      [] st.op = "class" ->
            IF Bound(m, {st.parent})
            THEN NewClass(m, st.name, m.globals[st.parent], <<>>)
            ELSE NameError(m)
      [] st.op = "bind"  ->
            IF Bound(m, {st.name, st.to})
            THEN SetAttr(m, m.globals[st.name], "_next_state_class",
                         Ref(m.globals[st.to]))
            ELSE NameError(m)

\* the statements run in order until one raises
RECURSIVE ExecUnnamed(_, _, _)
ExecUnnamed(stmts, i, m) ==
    IF i > Len(stmts) \/ m.error # "none" THEN m
    ELSE ExecUnnamed(stmts, i + 1, ExecUnnamedStmt(m, stmts[i]))

\* attribute lookup along the class and its bases
RECURSIVE ClassLookup(_, _, _)
ClassLookup(heap, cid, attr) ==
    IF cid = 0 THEN None
    ELSE IF attr \in DOMAIN heap[cid].attrs THEN heap[cid].attrs[attr]
    ELSE ClassLookup(heap, heap[cid].parent, attr)

\* __str__: self.__class__.__name__
Display(m, cid) == m.heap[cid].name

\* the unnamed base class's next_state(self): return self._next_state_class()
UnnamedNextStateSameClass(m, cid) == [outcome |-> "ok", self |-> cid]

UnnamedNextState(m, cid) ==
    LET nxt == ClassLookup(m.heap, cid, "_next_state_class")
    IN  IF nxt = None THEN [outcome |-> "AttributeError", self |-> cid]
        ELSE [outcome |-> "ok", self |-> nxt.id]

(***************************************************************************)
(* What the edges of a block say, read off the parse results directly      *)
(***************************************************************************)

EdgesOf(toks) == toks.transitions

FromStates(toks) == {EdgesOf(toks)[i].from_state : i \in DOMAIN EdgesOf(toks)}

ToStates(toks) == {EdgesOf(toks)[i].to_state : i \in DOMAIN EdgesOf(toks)}

\* the to_state of the last edge, in declaration order, that leaves s
LastEdgeTo(toks, s) ==
    LET trs == EdgesOf(toks)
        last == CHOOSE i \in DOMAIN trs :
                    /\ trs[i].from_state = s
                    /\ \A j \in DOMAIN trs : j > i => trs[j].from_state # s
    IN  trs[last].to_state

\* the transition names that some edge binds for s
BoundFor(toks, s) ==
    {EdgesOf(toks)[i].transition :
        i \in {j \in DOMAIN EdgesOf(toks) : EdgesOf(toks)[j].from_state = s}}

\* the to_state of the last edge, in declaration order, that leaves s by t
LastNamedEdgeTo(toks, s, t) ==
    LET trs == EdgesOf(toks)
        last == CHOOSE i \in DOMAIN trs :
                    /\ trs[i].from_state = s /\ trs[i].transition = t
                    /\ \A j \in DOMAIN trs :
                          j > i => ~(trs[j].from_state = s /\ trs[j].transition = t)
    IN  trs[last].to_state

RECURSIVE KFoldSuccessor(_, _, _)
KFoldSuccessor(toks, s, k) ==
    IF k = 0 THEN s ELSE KFoldSuccessor(toks, LastEdgeTo(toks, s), k - 1)

CountStmts(stmts, P(_)) == Cardinality({i \in DOMAIN stmts : P(stmts[i])})

(***************************************************************************)
(* SpecU: one unnamed block from its parse results to a running machine    *)
(***************************************************************************)

MaxEdgesU == 3
MaxStepsU == 3

StateNamesU == {"A", "B", "C"}
MachineNamesU == {"Light", "A"}

UnnamedEdges == [from_state : StateNamesU, to_state : StateNamesU]

UnnamedTokens ==
    [name : MachineNamesU,
     transitions : UNION {[1..n -> UnnamedEdges] : n \in 1..MaxEdgesU}]

NoCall == [op |-> "none"]

InitU ==
    /\ pc = "parsed"
    /\ tokens \in UnnamedTokens
    /\ src = None /\ data = <<>> /\ generated_code = <<>>
    /\ graph = None /\ statedef = <<>> /\ module = LoadedModule
    /\ self = 0 /\ call = NoCall /\ found = <<>>

\* stateMachine's parse action runs on the parse results
ExpandStateDefinition ==
    /\ pc = "parsed"
    /\ \E order \in SetOrders(BuildUnnamed(tokens).states) :
          statedef' = expand_state_definition(0, tokens, order).statedef
    /\ graph' = BuildUnnamed(tokens)
    /\ pc' = "emitted"
    /\ UNCHANGED <<src, data, generated_code, tokens, module, self, call, found>>

ExecU ==
    /\ pc = "emitted"
    /\ module' = ExecUnnamed(statedef, 1, WithBuiltins(module))
    /\ pc' = IF module'.error = "none" THEN "loaded" ELSE "failed"
    /\ UNCHANGED <<src, data, generated_code, tokens, graph, statedef, self, call, found>>

\* the host program makes an instance of one of the state classes
InstantiateU ==
    /\ pc = "loaded"
    /\ \E s \in graph.states :
          /\ self' = module.globals[s]
          /\ call' = [op |-> "new", start |-> s, n |-> 0, outcome |-> "ok",
                      guarded |-> TRUE]
    /\ pc' = "running"
    /\ UNCHANGED <<src, data, generated_code, tokens, graph, statedef, module, found>>

\* the host program calls next_state() on the instance in hand
NextStateU ==
    /\ pc = "running"
    /\ call.outcome = "ok"
    /\ call.n < MaxStepsU
    /\ LET r == UnnamedNextState(module, self)
       IN  /\ self' = r.self
           /\ call' = [op |-> "next_state", start |-> call.start, n |-> call.n + 1,
                       outcome |-> r.outcome,
                       guarded |-> call.guarded
                                   /\ Display(module, self) \in FromStates(tokens)]
    /\ UNCHANGED <<pc, src, data, generated_code, tokens, graph, statedef, module, found>>

NextU == ExpandStateDefinition \/ ExecU \/ InstantiateU \/ NextStateU

SpecU == InitU /\ [][NextU]_vars

\* C3: after k next_state() calls from an instance of s, each made on a state
\* that has a successor, the instance in hand displays the k-fold successor of s.
C3_UnnamedStepping ==
    (pc = "running" /\ call.guarded) =>
        /\ call.outcome = "ok"
        /\ Display(module, self) = KFoldSuccessor(tokens, call.start, call.n)

\* three calls round a cycle of three states are back at the start
C3_Witness ==
    /\ pc = "running" /\ call.guarded /\ call.n = 3
    /\ Cardinality(graph.states) = 3
    /\ Display(module, self) = call.start
    /\ KFoldSuccessor(tokens, call.start, 1) # call.start
    /\ KFoldSuccessor(tokens, call.start, 2) # call.start

\* C4: the emitted statements hold exactly one subtype definition for each
\* identifier that is a from_state or to_state of some edge, and none for any other.
C4_OneSubtypePerState ==
    pc # "parsed" =>
        \A s \in StateNamesU \cup MachineNamesU :
            CountStmts(statedef, LAMBDA st : st.op = "class" /\ st.name = s)
                = IF s \in FromStates(tokens) \cup ToStates(tokens) THEN 1 ELSE 0

\* a state named three times in the edges, and one that is only a to_state
C4_Witness ==
    /\ pc = "emitted"
    /\ Len(tokens.transitions) = 3
    /\ \A i \in 1..3 : "A" \in {tokens.transitions[i].from_state,
                                  tokens.transitions[i].to_state}
    /\ "C" \in ToStates(tokens) \ FromStates(tokens)
    /\ CountStmts(statedef, LAMBDA st : st.op = "class" /\ st.name = "A") = 1
    /\ CountStmts(statedef, LAMBDA st : st.op = "class" /\ st.name = "C") = 1

\* C5: fromTo is defined exactly for the from_states and maps each to the to_state
\* of the last edge that leaves it; the one binding emitted for it names that state.
C5_LastWriteWins ==
    pc # "parsed" =>
        /\ DOMAIN graph.fromTo = FromStates(tokens)
        /\ \A s \in FromStates(tokens) :
              /\ graph.fromTo[s] = LastEdgeTo(tokens, s)
              /\ CountStmts(statedef, LAMBDA st : st.op = "bind" /\ st.name = s) = 1
              /\ \A i \in DOMAIN statedef :
                    (statedef[i].op = "bind" /\ statedef[i].name = s)
                        => statedef[i].to = LastEdgeTo(tokens, s)
        /\ \A i \in DOMAIN statedef :
              statedef[i].op = "bind" => statedef[i].name \in FromStates(tokens)

\* A -> B followed by A -> C leaves fromTo[A] = C
C5_Witness ==
    /\ pc = "emitted"
    /\ Len(tokens.transitions) >= 2
    /\ tokens.transitions[1] = [from_state |-> "A", to_state |-> "B"]
    /\ tokens.transitions[2] = [from_state |-> "A", to_state |-> "C"]
    /\ graph.fromTo["A"] = "C"
    /\ \E i \in DOMAIN statedef :
          statedef[i] = [op |-> "bind", name |-> "A", to |-> "C"]

(***************************************************************************)
(* expand_named_state_definition: the named dialect's parse action         *)
(***************************************************************************)

\* a dict whose items() are read: the keys in the order of their first insertion
EmptyDict == [keys |-> <<>>, val |-> <<>>]

ItemSet(d, k, v) ==
    [keys |-> IF k \in DOMAIN d.val THEN d.keys ELSE Append(d.keys, k),
     val  |-> DictSet(d.val, k, v)]

\* the branch for a from_state already in fromTo left out
NamedLoopReplace(acc, tn) ==
    [states      |-> acc.states \cup {tn.from_state, tn.to_state},
     transitions |-> acc.transitions \cup {tn.transition},
     fromTo      |-> DictSet(acc.fromTo, tn.from_state,
                             ItemSet(EmptyDict, tn.transition, tn.to_state))]

\* one pass of the loop over tokens.transitions
NamedLoop(acc, tn) ==
    [states      |-> acc.states \cup {tn.from_state, tn.to_state},
     transitions |-> acc.transitions \cup {tn.transition},
     fromTo      |-> IF tn.from_state \in DOMAIN acc.fromTo
                     THEN [acc.fromTo EXCEPT ![tn.from_state] =
                               ItemSet(@, tn.transition, tn.to_state)]
                     ELSE DictSet(acc.fromTo, tn.from_state,
                                  ItemSet(EmptyDict, tn.transition, tn.to_state))]

RECURSIVE NamedGraph(_, _, _)
NamedGraph(trs, i, acc) ==
    IF i > Len(trs) THEN acc
    ELSE NamedGraph(trs, i + 1, NamedLoop(acc, trs[i]))

\* add entries for terminal states
AddTerminals(g) ==
    [g EXCEPT !.fromTo = [s \in g.states |->
                              IF s \in DOMAIN g.fromTo THEN g.fromTo[s] ELSE EmptyDict]]

BuildNamed(toks) ==
    AddTerminals(NamedGraph(toks.transitions, 1,
                            [states |-> {}, transitions |-> {}, fromTo |-> <<>>]))

TransitionClass(baseStateClass) == [op |-> "tclass", name |-> baseStateClass]

TransitionValue(tn, baseStateClass) ==
    [op |-> "tinst", name |-> tn, machine |-> baseStateClass]

TransitionName(tn) == [op |-> "tname", name |-> tn]

NamedBase(name) ==
    [op |-> "base", name |-> name, parent |-> "object",
     methods |-> {"__str__", "next_state", "__getattr__"}]

\* list(fromTo[s].items())
Items(d) == [i \in 1..Len(d.keys) |-> [transition |-> d.keys[i], to |-> d.val[d.keys[i]]]]

TnMap(s, trns) == [op |-> "tnmap", name |-> s, items |-> trns]

TransitionMethod(s, item) ==
    [op |-> "method", name |-> s, attr |-> item.transition, to |-> item.to]

\* the statements of one pass of the loop over states at the end
StateMaps(g, s) ==
    LET trns == Items(g.fromTo[s])
    IN  <<TnMap(s, trns)>> \o [i \in 1..Len(trns) |-> TransitionMethod(s, trns[i])]

RECURSIVE AllStateMaps(_, _)
AllStateMaps(g, order) ==
    IF order = <<>> THEN <<>>
    ELSE StateMaps(g, Head(order)) \o AllStateMaps(g, Tail(order))

\* statedef, given the orders in which the sets states and transitions iterate
EmitNamed(g, baseStateClass, stOrder, trOrder) ==
    <<TransitionClass(baseStateClass)>>
    \o [i \in 1..Len(trOrder) |-> TransitionValue(trOrder[i], baseStateClass)]
    \o [i \in 1..Len(trOrder) |-> TransitionName(trOrder[i])]
    \o <<NamedBase(baseStateClass)>>
    \o [i \in 1..Len(stOrder) |-> StateClass(stOrder[i], baseStateClass)]
    \o AllStateMaps(g, stOrder)

expand_named_state_definition(indent, toks, stOrder, trOrder) ==
    [indent |-> indent, dialect |-> "named", name |-> toks.name,
     statedef |-> EmitNamed(BuildNamed(toks), toks.name, stOrder, trOrder)]

(***************************************************************************)
(* The named dialect's statements under exec, and the emitted methods      *)
(***************************************************************************)

NewInstance(m, name, cls) ==
    [m EXCEPT !.globals = DictSet(@, name, Len(m.heap) + 1),
              !.heap = Append(@, [kind |-> "inst", cls |-> cls, attrs |-> <<>>])]

\* {t: To, ...}: each key and value is the object the global name is bound to
RECURSIVE DictLiteral(_, _, _, _)
DictLiteral(m, items, i, acc) ==
    IF i > Len(items) THEN acc
    ELSE DictLiteral(m, items, i + 1,
                     DictSet(acc, m.globals[items[i].transition], m.globals[items[i].to]))

ItemNames(items) ==
    {items[i].transition : i \in DOMAIN items} \cup {items[i].to : i \in DOMAIN items}

ExecNamedStmt(m, st) ==
    CASE st.op = "tclass" ->
            NewClass(m, st.name \o "Transition", 0,
                     [f \in {"__str__"} |-> [k |-> "method", f |-> f, machine |-> st.name]])
      [] st.op = "tinst" ->
            IF Bound(m, {st.machine \o "Transition"})
            THEN NewInstance(m, st.name, m.globals[st.machine \o "Transition"])
            ELSE NameError(m)
      [] st.op = "tname" ->
            IF Bound(m, {st.name})
            THEN SetAttr(m, m.globals[st.name], "transitionName",
                         [k |-> "str", s |-> st.name])
            ELSE NameError(m)
      [] st.op = "base" -> NewClass(m, st.name, 0, Methods(st))
      [] st.op = "class" ->
            IF Bound(m, {st.parent})
            THEN NewClass(m, st.name, m.globals[st.parent], <<>>)
            ELSE NameError(m)
      [] st.op = "tnmap" ->
            IF Bound(m, {st.name} \cup ItemNames(st.items))
            THEN SetAttr(m, m.globals[st.name], "tnmap",
                         [k |-> "dict", map |-> DictLiteral(m, st.items, 1, <<>>)])
            ELSE NameError(m)
      [] st.op = "method" ->
            IF Bound(m, {st.name})
            THEN SetAttr(m, m.globals[st.name], st.attr, [k |-> "ctor", to |-> st.to])
            ELSE NameError(m)

RECURSIVE ExecNamed(_, _, _)
ExecNamed(stmts, i, m) ==
    IF i > Len(stmts) \/ m.error # "none" THEN m
    ELSE ExecNamed(stmts, i + 1, ExecNamedStmt(m, stmts[i]))

\* X(): a class makes an instance of itself, anything else is not callable
CallObject(m, id, cid) ==
    IF m.heap[id].kind = "class" THEN [outcome |-> "ok", self |-> id]
    ELSE [outcome |-> "TypeError", self |-> cid]

\* raise statemachine.InvalidTransitionException(excmsg % (self, name))
InvalidTransition(m, cid, machine, name) ==
    [outcome |-> "InvalidTransition", self |-> cid,
     msg |-> [machine |-> machine, state |-> Display(m, cid), transition |-> name]]

\* the base class's __getattr__(self, name), reached when no class has the attribute
GetAttrHook(m, cid, name) ==
    InvalidTransition(m, cid, ClassLookup(m.heap, cid, "__getattr__").machine, name)

\* the base class's next_state(self, name)
NamedNextState(m, cid, name) ==
    LET tnmap == ClassLookup(m.heap, cid, "tnmap")
        machine == ClassLookup(m.heap, cid, "next_state").machine
    IN  IF tnmap = None THEN GetAttrHook(m, cid, "tnmap")
        ELSE IF "tn" \notin DOMAIN m.globals
             THEN [outcome |-> "NameError", self |-> cid]
        ELSE IF m.globals["tn"] \in DOMAIN tnmap.map
             THEN CallObject(m, tnmap.map[m.globals["tn"]], cid)
        ELSE InvalidTransition(m, cid, machine, name)

\* instance.name(): the attribute is looked up, and what is found is called
NamedMemberCall(m, cid, name) ==
    LET member == ClassLookup(m.heap, cid, name)
    IN  IF member = None THEN GetAttrHook(m, cid, name)
        ELSE IF member.k = "ctor"
             THEN IF member.to \in DOMAIN m.globals
                  THEN CallObject(m, m.globals[member.to], cid)
                  ELSE [outcome |-> "NameError", self |-> cid]
        ELSE [outcome |-> "TypeError", self |-> cid]

(***************************************************************************)
(* SpecN: one named block from its parse results to a running machine      *)
(***************************************************************************)

MaxEdgesN == 2

StateNamesN == {"A", "B", "C"}
TransitionNamesN == {"t", "tn"}
MachineNamesN == {"Door"}

NamedEdges ==
    [from_state : StateNamesN, transition : TransitionNamesN, to_state : StateNamesN]

NamedTokens ==
    [name : MachineNamesN,
     transitions : UNION {[1..n -> NamedEdges] : n \in 1..MaxEdgesN}]

InitN ==
    /\ pc = "parsed"
    /\ tokens \in NamedTokens
    /\ src = None /\ data = <<>> /\ generated_code = <<>>
    /\ graph = None /\ statedef = <<>> /\ module = LoadedModule
    /\ self = 0 /\ call = NoCall /\ found = <<>>

\* namedStateMachine's parse action runs on the parse results
ExpandNamedStateDefinition ==
    /\ pc = "parsed"
    /\ \E stOrder \in SetOrders(BuildNamed(tokens).states),
          trOrder \in SetOrders(BuildNamed(tokens).transitions) :
          statedef' = expand_named_state_definition(0, tokens, stOrder, trOrder).statedef
    /\ graph' = BuildNamed(tokens)
    /\ pc' = "emitted"
    /\ UNCHANGED <<src, data, generated_code, tokens, module, self, call, found>>

ExecN ==
    /\ pc = "emitted"
    /\ module' = ExecNamed(statedef, 1, WithBuiltins(module))
    /\ pc' = IF module'.error = "none" THEN "loaded" ELSE "failed"
    /\ UNCHANGED <<src, data, generated_code, tokens, graph, statedef, self, call, found>>

InstantiateN ==
    /\ pc = "loaded"
    /\ \E s \in graph.states :
          /\ self' = module.globals[s]
          /\ call' = [op |-> "new", state |-> s]
    /\ pc' = "running"
    /\ UNCHANGED <<src, data, generated_code, tokens, graph, statedef, module, found>>

\* a call on the instance in hand; the host keeps the instance when the call raises
Called(op, name, r) ==
    /\ self' = r.self
    /\ call' = [op |-> op, state |-> Display(module, self), name |-> name, result |-> r]
    /\ UNCHANGED <<pc, src, data, generated_code, tokens, graph, statedef, module, found>>

\* instance.next_state(name), for a transition name of the block
NextStateN ==
    /\ pc = "running"
    /\ \E name \in graph.transitions :
          Called("next_state", name, NamedNextState(module, self, name))

\* instance.name(), for a transition name of the block
MemberCallN ==
    /\ pc = "running"
    /\ \E name \in graph.transitions :
          Called("member", name, NamedMemberCall(module, self, name))

NextN == ExpandNamedStateDefinition \/ ExecN \/ InstantiateN \/ NextStateN \/ MemberCallN

SpecN == InitN /\ [][NextN]_vars

\* C1: next_state(name) on an instance of s, for a transition name bound for s,
\* succeeds and returns an instance that displays table[s][name].
C1_BoundDispatchSucceeds ==
    (pc = "running" /\ call.op = "next_state"
        /\ call.name \in BoundFor(tokens, call.state)) =>
        /\ call.result.outcome = "ok"
        /\ Display(module, self) = LastNamedEdgeTo(tokens, call.state, call.name)

\* C2: a transition name of the block that is not bound for s, invoked on an
\* instance of s by next_state(name) or by member access, fails with
\* InvalidTransition carrying the display name of s and the transition name.
C2_UnboundFailsInvalidTransition ==
    (pc = "running" /\ call.op \in {"next_state", "member"}
        /\ call.name \notin BoundFor(tokens, call.state)) =>
        /\ call.result.outcome = "InvalidTransition"
        /\ call.result.msg.state = call.state
        /\ call.result.msg.transition = call.name
        /\ Display(module, self) = call.state

\* C6: the keys of fromTo are the states; fromTo[s] holds exactly the transition
\* names some edge binds for s, each mapped to the to_state of the last such edge;
\* a state that is never a from_state maps to the empty dict; every successor is a
\* state; the tnmap statement emitted for s lists these items.
C6_TransitionTable ==
    pc # "parsed" =>
        /\ graph.states = FromStates(tokens) \cup ToStates(tokens)
        /\ DOMAIN graph.fromTo = graph.states
        /\ \A s \in graph.states :
              /\ DOMAIN graph.fromTo[s].val = BoundFor(tokens, s)
              /\ \A t \in BoundFor(tokens, s) :
                    /\ graph.fromTo[s].val[t] = LastNamedEdgeTo(tokens, s, t)
                    /\ graph.fromTo[s].val[t] \in graph.states
              /\ s \notin FromStates(tokens) => graph.fromTo[s] = EmptyDict
              /\ CountStmts(statedef, LAMBDA st : st.op = "tnmap" /\ st.name = s) = 1
              /\ \A i \in DOMAIN statedef :
                    (statedef[i].op = "tnmap" /\ statedef[i].name = s) =>
                        {statedef[i].items[j] : j \in DOMAIN statedef[i].items}
                            = {[transition |-> t, to |-> LastNamedEdgeTo(tokens, s, t)] :
                                  t \in BoundFor(tokens, s)}

\* A -(t)-> B then A -(tn)-> C: two names in table[A], and B and C terminal
C6_Witness ==
    /\ pc = "emitted"
    /\ tokens.transitions =
          <<[from_state |-> "A", transition |-> "t", to_state |-> "B"],
            [from_state |-> "A", transition |-> "tn", to_state |-> "C"]>>
    /\ graph.fromTo["A"].val = [x \in {"t", "tn"} |-> IF x = "t" THEN "B" ELSE "C"]
    /\ graph.fromTo["B"] = EmptyDict
    /\ graph.fromTo["C"] = EmptyDict

(***************************************************************************)
(* The grammar.  A text is a sequence of characters; a position is the     *)
(* index of the next character to read, Len + 1 at the end of the text.    *)
(* A parser returns ok, the position after what it matched, and its token. *)
(***************************************************************************)

alphas ==
    {"a", "b", "c", "d", "e", "f", "g", "h", "i", "j", "k", "l", "m",
     "n", "o", "p", "q", "r", "s", "t", "u", "v", "w", "x", "y", "z",
     "A", "B", "C", "D", "E", "F", "G", "H", "I", "J", "K", "L", "M",
     "N", "O", "P", "Q", "R", "S", "T", "U", "V", "W", "X", "Y", "Z"}

nums == {"0", "1", "2", "3", "4", "5", "6", "7", "8", "9"}

alphanums == alphas \cup nums

\* keyword.kwlist
kwlist ==
    {"False",
     "None",
     "True",
     "and",
     "as",
     "assert",
     "async",
     "await",
     "break",
     "class",
     "continue",
     "def",
     "del",
     "elif",
     "else",
     "except",
     "finally",
     "for",
     "from",
     "global",
     "if",
     "import",
     "in",
     "is",
     "lambda",
     "nonlocal",
     "not",
     "or",
     "pass",
     "raise",
     "return",
     "try",
     "while",
     "with",
     "yield"}

Fail == [ok |-> FALSE]

White == {" ", "\t", "\n", "\r"}

RECURSIVE SkipWhite(_, _)
SkipWhite(s, loc) ==
    IF loc <= Len(s) /\ s[loc] \in White THEN SkipWhite(s, loc + 1) ELSE loc

\* pythonStyleComment: "#" and the rest of the line
RECURSIVE LineEnd(_, _)
LineEnd(s, loc) ==
    IF loc <= Len(s) /\ s[loc] # "\n" THEN LineEnd(s, loc + 1) ELSE loc

\* before each token: whitespace and the ignored comments are skipped (every
\* element of stateMachineExpr ignores pythonStyleComment)
RECURSIVE PreParse(_, _), SkipComment(_, _)
PreParse(s, loc) == SkipComment(s, SkipWhite(s, loc))

SkipComment(s, p) ==
    IF p <= Len(s) /\ s[p] = "#" THEN PreParse(s, LineEnd(s, p)) ELSE p

StartsWith(s, loc, lit) ==
    /\ loc + Len(lit) - 1 <= Len(s)
    /\ SubSeq(s, loc, loc + Len(lit) - 1) = lit

Matched(loc, val) == [ok |-> TRUE, loc |-> loc, val |-> val]

LiteralAt(s, p, lit) ==
    IF StartsWith(s, p, lit) THEN Matched(p + Len(lit), lit) ELSE Fail

identChars == alphanums \cup {"_", "$"}

\* a keyword is a literal that no identifier character precedes or follows
KeywordAt(s, p, kw) ==
    IF /\ StartsWith(s, p, kw)
       /\ (p + Len(kw) > Len(s) \/ s[p + Len(kw)] \notin identChars)
       /\ (p = 1 \/ s[p - 1] \notin identChars)
    THEN Matched(p + Len(kw), kw)
    ELSE Fail

RECURSIVE WordEnd(_, _, _)
WordEnd(s, loc, bodyChars) ==
    IF loc <= Len(s) /\ s[loc] \in bodyChars THEN WordEnd(s, loc + 1, bodyChars) ELSE loc

\* the characters of a match as one str
RECURSIVE Join(_)
Join(chars) == IF chars = <<>> THEN "" ELSE Head(chars) \o Join(Tail(chars))

WordTo(s, p, e) == Matched(e, Join(SubSeq(s, p, e - 1)))

WordAt(s, p, initChars, bodyChars) ==
    IF p <= Len(s) /\ s[p] \in initChars
    THEN WordTo(s, p, WordEnd(s, p + 1, bodyChars))
    ELSE Fail

no_keywords_allowed_any(wd) == TRUE

no_keywords_allowed(wd) == wd \notin kwlist

\* addCondition: a match that the condition turns down is a failure to match
Condition(e, r) ==
    IF r.ok /\ (e.condition = "no_keywords_allowed" => no_keywords_allowed(r.val))
    THEN r ELSE Fail

\* setParseAction: the match carries the name of the parse action to call
Action(e, r) ==
    IF r.ok THEN [ok |-> TRUE, loc |-> r.loc, val |-> r.val, action |-> e.action]
    ELSE Fail

\* expression("name")
Named(e, name) == [e EXCEPT !.name = name]

\* the parser of an expression: And matches its expressions one after another
\* and gathers the named results, OneOrMore repeats its expression until it
\* fails to match and ends before the failure, MatchFirst returns the first
\* alternative that matches
RECURSIVE Parse(_, _, _), ParseAnd(_, _, _, _, _), AndStep(_, _, _, _, _),
          ParseMore(_, _, _, _), MoreStep(_, _, _, _, _), StartMore(_, _, _),
          ParseFirst(_, _, _, _), FirstStep(_, _, _, _, _)
Parse(e, s, loc) ==
    CASE e.kind = "Literal"    -> LiteralAt(s, PreParse(s, loc), e.match)
      [] e.kind = "Keyword"    -> KeywordAt(s, PreParse(s, loc), e.match)
      [] e.kind = "Word"       ->
            Condition(e, WordAt(s, PreParse(s, loc), e.initChars, e.bodyChars))
      [] e.kind = "And"        -> Action(e, ParseAnd(e.exprs, 1, s, loc, <<>>))
      [] e.kind = "Group"      -> Parse(e.expr, s, loc)
      [] e.kind = "OneOrMore"  -> StartMore(e.expr, s, Parse(e.expr, s, loc))
      [] e.kind = "MatchFirst" -> ParseFirst(e.exprs, 1, s, loc)

ParseAnd(exprs, i, s, loc, results) ==
    IF i > Len(exprs) THEN Matched(loc, results)
    ELSE AndStep(exprs, i, s, results, Parse(exprs[i], s, loc))

AndStep(exprs, i, s, results, r) ==
    IF ~r.ok THEN Fail
    ELSE ParseAnd(exprs, i + 1, s, r.loc,
                  IF exprs[i].name = "" THEN results
                  ELSE DictSet(results, exprs[i].name, r.val))

StartMore(e, s, r) ==
    IF ~r.ok THEN Fail ELSE ParseMore(e, s, r.loc, <<r.val>>)

ParseMore(e, s, loc, acc) == MoreStep(e, s, loc, acc, Parse(e, s, loc))

MoreStep(e, s, loc, acc, r) ==
    IF r.ok THEN ParseMore(e, s, r.loc, Append(acc, r.val)) ELSE Matched(loc, acc)

ParseFirst(exprs, i, s, loc) ==
    IF i > Len(exprs) THEN Fail
    ELSE FirstStep(exprs, i, s, loc, Parse(exprs[i], s, loc))

FirstStep(exprs, i, s, loc, r) ==
    IF r.ok THEN r ELSE ParseFirst(exprs, i + 1, s, loc)

Word(initChars, bodyChars) ==
    [kind |-> "Word", name |-> "", initChars |-> initChars, bodyChars |-> bodyChars,
     condition |-> "none"]

Literal(match) == [kind |-> "Literal", name |-> "", match |-> match]

Keyword(match) == [kind |-> "Keyword", name |-> "", match |-> match]

And(exprs) == [kind |-> "And", name |-> "", exprs |-> exprs, action |-> "none"]

Group(expr) == [kind |-> "Group", name |-> "", expr |-> expr]

OneOrMore(expr) == [kind |-> "OneOrMore", name |-> "", expr |-> expr]

MatchFirst(exprs) == [kind |-> "MatchFirst", name |-> "", exprs |-> exprs]

(***************************************************************************)
(* The two grammars                                                        *)
(***************************************************************************)

ident ==
    [Word(alphas \cup {"_"}, alphanums \cup {"_", "$"})
        EXCEPT !.condition = "no_keywords_allowed"]

stateTransition ==
    And(<<Named(ident, "from_state"), Literal(<<"-", ">">>), Named(ident, "to_state")>>)

kw_statemachine == <<"s", "t", "a", "t", "e", "m", "a", "c", "h", "i", "n", "e">>

stateMachine ==
    [And(<<Keyword(kw_statemachine), Named(ident, "name"), Literal(<<":">>),
           Named(OneOrMore(Group(stateTransition)), "transitions")>>)
        EXCEPT !.action = "expand_state_definition"]

namedStateTransition ==
    And(<<Named(ident, "from_state"),
          Literal(<<"-", "(">>), Named(ident, "transition"), Literal(<<")", "-", ">">>),
          Named(ident, "to_state")>>)

namedStateMachine ==
    [And(<<Keyword(kw_statemachine), Named(ident, "name"), Literal(<<":">>),
           Named(OneOrMore(Group(namedStateTransition)), "transitions")>>)
        EXCEPT !.action = "expand_named_state_definition"]

stateMachineExprUnnamedOnly == MatchFirst(<<stateMachine>>)

\* (stateMachine | namedStateMachine).ignore(pythonStyleComment)
stateMachineExpr == MatchFirst(<<stateMachine, namedStateMachine>>)

\* the matches, left to right: after a match the scan goes on at its end,
\* after a failure one character further
RECURSIVE scanString(_, _, _, _), ScanAt(_, _, _, _, _), ScanStep(_, _, _, _, _, _)
scanString(e, s, loc, acc) ==
    IF loc > Len(s) + 1 THEN acc ELSE ScanAt(e, s, loc, PreParse(s, loc), acc)

ScanAt(e, s, loc, preloc, acc) == ScanStep(e, s, loc, preloc, Parse(e, s, preloc), acc)

ScanStep(e, s, loc, preloc, r, acc) ==
    IF r.ok /\ r.loc > loc
    THEN scanString(e, s, r.loc,
                    Append(acc, [start |-> preloc, end |-> r.loc,
                                 action |-> r.action, tokens |-> r.val]))
    ELSE scanString(e, s, preloc + 1, acc)

RECURSIVE LastNewlineBefore(_, _)
LastNewlineBefore(s, loc) ==
    IF loc <= 1 THEN 0
    ELSE IF s[loc - 1] = "\n" THEN loc - 1
    ELSE LastNewlineBefore(s, loc - 1)

col(loc, s) == loc - LastNewlineBefore(s, loc)

(***************************************************************************)
(* PystateImporter.process_filedata: transformString over the two grammars *)
(***************************************************************************)

Text(chars) == [kind |-> "text", chars |-> chars]

Code(c) == [kind |-> "code", code |-> c]

\* the orders in which the sets of one match's parse action may iterate
OrdersFor(match) ==
    IF match.action = "expand_named_state_definition"
    THEN [st : SetOrders(BuildNamed(match.tokens).states),
          tr : SetOrders(BuildNamed(match.tokens).transitions)]
    ELSE [st : SetOrders(BuildUnnamed(match.tokens).states), tr : {<<>>}]

AllOrders(matches) ==
    {os \in [1..Len(matches) -> UNION {OrdersFor(matches[i]) : i \in 1..Len(matches)}] :
        \A i \in 1..Len(matches) : os[i] \in OrdersFor(matches[i])}

\* the parse action of the grammar that matched, called with the match's start
ParseAction(s, match, order) ==
    IF match.action = "expand_named_state_definition"
    THEN expand_named_state_definition(col(match.start, s) - 1, match.tokens,
                                       order.st, order.tr)
    ELSE expand_state_definition(col(match.start, s) - 1, match.tokens, order.st)

\* the pieces of the result that are not empty
Piece(s, from, to) == IF from > to THEN <<>> ELSE <<Text(SubSeq(s, from, to))>>

\* the text between the matches is kept, each match gives way to what its
\* parse action returns
RECURSIVE Transformed(_, _, _, _, _)
Transformed(s, matches, orders, i, lastE) ==
    IF i > Len(matches) THEN Piece(s, lastE, Len(s))
    ELSE Piece(s, lastE, matches[i].start - 1)
         \o <<Code(ParseAction(s, matches[i], orders[i]))>>
         \o Transformed(s, matches, orders, i + 1, matches[i].end)

\* generated_code.rstrip(" \t")
RECURSIVE RStripChars(_)
RStripChars(chars) ==
    IF chars # <<>> /\ chars[Len(chars)] \in {" ", "\t"}
    THEN RStripChars(SubSeq(chars, 1, Len(chars) - 1))
    ELSE chars

RStrip(out) ==
    IF out # <<>> /\ out[Len(out)].kind = "text"
    THEN [out EXCEPT ![Len(out)] = Text(RStripChars(@.chars))]
    ELSE out

\* only whitespace and comments
Blank(chars) == PreParse(chars, 1) = Len(chars) + 1

\* compile(text, module.__file__, 'exec').  The source texts of this model hold
\* no Python statement of their own: text that is left outside comments is a
\* fragment of the statemachine language, which is a SyntaxError, and so are
\* emitted statements that do not start in the first column, their first line
\* being indented twice.
compile(out) ==
    IF \A i \in DOMAIN out :
          \/ out[i].kind = "text" /\ Blank(out[i].chars)
          \/ out[i].kind = "code" /\ out[i].code.indent = 0
    THEN "ok" ELSE "SyntaxError"

RECURSIVE Joined(_)
Joined(out) ==
    IF out = <<>> THEN <<>>
    ELSE (IF Head(out).kind = "text" THEN Head(out).chars ELSE <<>>) \o Joined(Tail(out))

\* exec(codeobj, module.__dict__): the statements of every emitted piece run
\* in the order of the text, until one raises
RECURSIVE ExecCode(_, _, _)
ExecCode(out, i, m) ==
    IF i > Len(out) \/ m.error # "none" THEN m
    ELSE IF out[i].kind # "code" THEN ExecCode(out, i + 1, m)
    ELSE IF out[i].code.dialect = "named"
         THEN ExecCode(out, i + 1, ExecNamed(out[i].code.statedef, 1, m))
    ELSE ExecCode(out, i + 1, ExecUnnamed(out[i].code.statedef, 1, m))

\* the exception exec lets through, if a statement raised one
ExecOutcome(m) == IF m.error = "none" THEN "ok" ELSE m.error

\* what process_filedata leaves behind once transformString has returned out:
\* compile raises, or exec runs the code object in the module's namespace
CompileAndExec(m, matches, out, compiled) ==
    [tokens |-> matches, generated_code |-> out,
     module |-> IF compiled = "ok" THEN ExecCode(out, 1, WithBuiltins(m)) ELSE m,
     outcome |-> IF compiled = "ok" THEN ExecOutcome(ExecCode(out, 1, WithBuiltins(m)))
                 ELSE compiled]

\* PystateImporter.process_filedata(module, data): the outcomes it may have,
\* one for each order in which the parse actions' sets may iterate
process_filedata(m, d) ==
    UNION {{CompileAndExec(m, matches, out, compile(RStrip(out))) :
                out \in {Transformed(d, matches, orders, 1, 1) :
                            orders \in AllOrders(matches)}} :
            matches \in {scanString(stateMachineExpr, d, 1, <<>>)}}

(***************************************************************************)
(* SpecF: files, written from pieces, imported through the importer        *)
(***************************************************************************)

MaxEdgesF == 2

NameA == <<"A">>
NameB == <<"B">>
NameT == <<"t">>
NameM == <<"M">>
ReservedIf == <<"i", "f">>

ReservedF == {ReservedIf}

UnnamedEdgesF ==
    {[shape |-> "unnamed", from_state |-> f, transition |-> <<>>, to_state |-> t] :
        <<f, t>> \in {<<NameA, NameB>>, <<NameB, NameA>>,
                      <<ReservedIf, NameB>>, <<NameA, ReservedIf>>}}

NamedEdgesF ==
    {[shape |-> "named", from_state |-> x[1], transition |-> x[2], to_state |-> x[3]] :
        x \in {<<NameA, NameT, NameB>>, <<NameB, NameT, NameA>>,
               <<ReservedIf, NameT, NameB>>, <<NameA, ReservedIf, NameB>>,
               <<NameA, NameT, ReservedIf>>}}

EdgesF == UnnamedEdgesF \cup NamedEdgesF

\* what precedes the block: nothing; a comment line and an indentation; a "#"
\* that comments the block out; a letter glued to the keyword
PreNone == <<>>
PreIndented == <<"#", " ", "c", "\n", " ", " ">>
PreCommentedOut == <<"#", " ">>
PreGlued == <<"x">>

PresF == {PreNone, PreIndented, PreCommentedOut, PreGlued}

SepsF == {<<" ">>, <<"\n", "#", "c", "\n", " ">>}

PostsF == {<<>>, <<" ", "#", "c", "\n", "\t">>}

HeadsF == {"machine", "reserved", "nokeyword"}

Sources ==
    [pre : PresF, head : HeadsF, sep : SepsF, post : PostsF, tight : BOOLEAN,
     edges : UNION {[1..n -> EdgesF] : n \in 0..MaxEdgesF}]

HeadText(head) ==
    CASE head = "machine"   -> kw_statemachine \o <<" ">> \o NameM \o <<":">>
      [] head = "reserved"  -> kw_statemachine \o <<" ">> \o ReservedIf \o <<":">>
      [] head = "nokeyword" -> NameM \o <<":">>

\* an edge, with or without blanks round its arrow
EdgeText(e, tight) ==
    LET gap == IF tight THEN <<>> ELSE <<" ">>
    IN  IF e.shape = "named"
        THEN e.from_state \o gap \o <<"-", "(">> \o e.transition \o <<")", "-", ">">>
             \o gap \o e.to_state
        ELSE e.from_state \o gap \o <<"-", ">">> \o gap \o e.to_state

RECURSIVE EdgesText(_, _, _)
EdgesText(edges, sep, tight) ==
    IF edges = <<>> THEN <<>>
    ELSE sep \o EdgeText(Head(edges), tight) \o EdgesText(Tail(edges), sep, tight)

Render(source) ==
    source.pre \o HeadText(source.head)
    \o EdgesText(source.edges, source.sep, source.tight) \o source.post

\* sys.modules[fullname] left by an earlier import of the name
StaleModule == NewClass(EmptyModule, "Stale", 0, <<>>)

\* the importer is registered; the file exists (src is its text) or does not
\* (src is None); sys.modules holds the name (module is what an earlier import
\* left) or does not (module is None)
InitF ==
    /\ pc = "registered"
    /\ src \in Sources \cup {None}
    /\ module \in {None, StaleModule}
    /\ data = <<>> /\ generated_code = <<>> /\ tokens = <<>>
    /\ graph = None /\ statedef = <<>>
    /\ self = 0 /\ call = NoCall /\ found = <<>>

\* find_module(fullname): the path is remembered if the file exists
FindModule ==
    /\ pc = "registered"
    /\ IF src # None
       THEN /\ found' = DictSet(found, FullName, checkpath(DirPath, FullName))
            /\ call' = [op |-> "find_module", outcome |-> "self"]
            /\ pc' = "found"
       ELSE /\ found' = found
            /\ call' = [op |-> "find_module", outcome |-> "None"]
            /\ pc' = "notfound"
    /\ UNCHANGED <<src, data, generated_code, tokens, graph, statedef, module, self>>

\* load_module(fullname): the module of sys.modules, or a new one, is cleared,
\* given its three attributes and handed to process_filedata with the file's
\* text; an exception of process_filedata leaves the module as it then is
LoadModule ==
    /\ pc = "found"
    /\ FullName \in DOMAIN found
    /\ data' = Render(src)
    /\ \E r \in process_filedata(ClearedModule(found[FullName], FullName), Render(src)) :
          /\ tokens' = r.tokens
          /\ generated_code' = r.generated_code
          /\ module' = r.module
          /\ call' = [op |-> "load_module", outcome |-> r.outcome]
          /\ pc' = IF r.outcome = "ok" THEN "compiled" ELSE "raised"
    /\ UNCHANGED <<src, graph, statedef, self, found>>

NextF == FindModule \/ LoadModule

SpecF == InitF /\ [][NextF]_vars

(***************************************************************************)
(* What a source text holds, read off the pieces it was written from       *)
(***************************************************************************)

\* the keyword statemachine stands where a grammar can see it
Visible(source) == source.pre \notin {PreCommentedOut, PreGlued}

EdgeIdents(e) ==
    {e.from_state, e.to_state} \cup (IF e.shape = "named" THEN {e.transition} ELSE {})

ValidEdge(e) == EdgeIdents(e) \cap ReservedF = {}

\* the edge as the grammar of its shape delivers it
EdgeToken(e) ==
    IF e.shape = "named"
    THEN [from_state |-> Join(e.from_state), transition |-> Join(e.transition),
          to_state |-> Join(e.to_state)]
    ELSE [from_state |-> Join(e.from_state), to_state |-> Join(e.to_state)]

\* a block: keyword, machine name, colon and at least one edge
IsBlock(source) ==
    Visible(source) /\ source.head \in {"machine", "reserved"} /\ Len(source.edges) >= 1

\* a block that one of the grammars matches at its keyword
Matchable(source) ==
    IsBlock(source) /\ source.head = "machine" /\ ValidEdge(source.edges[1])

HasReserved(source) ==
    \/ source.head = "reserved"
    \/ \E i \in DOMAIN source.edges : ~ValidEdge(source.edges[i])

\* an edge after the first that does not parse in the first edge's dialect
BrokenLater(source) ==
    \E i \in 2..Len(source.edges) :
        \/ source.edges[i].shape # source.edges[1].shape
        \/ ~ValidEdge(source.edges[i])

AllOfShape(source, shape) ==
    \A i \in DOMAIN source.edges :
        source.edges[i].shape = shape /\ ValidEdge(source.edges[i])

NoCode(out) == \A i \in DOMAIN out : out[i].kind # "code"

\* C7: a block whose machine name, from_state, to_state or transition name is a
\* reserved word makes the transformation fail with a SyntaxError, and no
\* transformed text that holds an emitted construct for the block is returned.
C7_ReservedWordRejected ==
    (pc \in {"compiled", "raised"} /\ IsBlock(src) /\ HasReserved(src)) =>
        /\ call.outcome = "SyntaxError"
        /\ NoCode(generated_code)

\* C8: a block in which an edge after one or more valid edges does not parse in
\* the block's dialect is a syntax error and nothing is emitted for it: no
\* construct from the leading edges, no trailing edges left as text beside one.
C8_AllOrNothing ==
    (pc \in {"compiled", "raised"} /\ Matchable(src) /\ BrokenLater(src)) =>
        /\ call.outcome = "SyntaxError"
        /\ NoCode(generated_code)

\* C9: a source text with no position at which either grammar matches comes
\* back character for character, comments included.
C9_RoundTrip ==
    (pc \in {"compiled", "raised"} /\ ~Matchable(src)) =>
        /\ NoCode(generated_code)
        /\ Joined(generated_code) = data

\* a block with a reserved machine name, between comments, comes back as it was
C9_Witness ==
    /\ pc \in {"compiled", "raised"}
    /\ src.head = "reserved" /\ src.pre = PreIndented /\ src.post # <<>>
    /\ Len(src.edges) = 2 /\ AllOfShape(src, "unnamed")
    /\ generated_code = <<Text(data)>>

ActionOf(dialect) ==
    IF dialect = "named" THEN "expand_named_state_definition"
    ELSE "expand_state_definition"

\* some grammar matches somewhere in the text
MatchesSomewhere(e, s) == \E loc \in 1..(Len(s) + 1) : Parse(e, s, loc).ok

\* the one match of the text: its dialect, and all the edges of the block
OneMatch(dialect) ==
    /\ Len(tokens) = 1
    /\ tokens[1].action = ActionOf(dialect)
    /\ tokens[1].tokens.name = Join(NameM)
    /\ tokens[1].tokens.transitions = [i \in DOMAIN src.edges |-> EdgeToken(src.edges[i])]

\* the emitted statements are those of the dialect's parse action
CompiledAs(dialect) ==
    \E i \in DOMAIN generated_code :
        /\ generated_code[i].kind = "code"
        /\ generated_code[i].code.dialect = dialect
        /\ \E stmt \in {generated_code[i].code.statedef[j] :
                            j \in DOMAIN generated_code[i].code.statedef} :
              stmt.op = IF dialect = "named" THEN "tnmap" ELSE "bind"

\* C10: a block of named edges only is matched by the named grammar over all of
\* its edges and compiled by the named parse action, and the unnamed grammar
\* matches at no position of it; a block of unnamed edges only is matched by the
\* unnamed grammar, and the named grammar matches at no position of it.
C10_DialectDisambiguation ==
    (pc \in {"compiled", "raised"} /\ Matchable(src)) =>
        /\ AllOfShape(src, "named") =>
              /\ OneMatch("named") /\ CompiledAs("named")
              /\ ~MatchesSomewhere(stateMachine, data)
        /\ AllOfShape(src, "unnamed") =>
              /\ OneMatch("unnamed") /\ CompiledAs("unnamed")
              /\ ~MatchesSomewhere(namedStateMachine, data)

\* two named edges, a comment between them, compiled by the named parse action
\* and installed in the module by exec
C10_Witness ==
    /\ pc \in {"compiled", "raised"}
    /\ Matchable(src) /\ AllOfShape(src, "named") /\ Len(src.edges) = 2
    /\ src.sep # <<" ">>
    /\ OneMatch("named") /\ CompiledAs("named")
    /\ call.outcome = "ok"
    /\ Bound(module, {"MTransition", "t", "M", "A", "B"})

=============================================================================
